---------------------------- MODULE Spec2Model ----------------------------
(***************************************************************************)
(* Shape-level model of hi_diff/archs/Transformer_arch.py.                 *)
(*                                                                         *)
(* A tensor is represented by its shape, a sequence of naturals.  Every    *)
(* torch / einops operator is modelled by what it does to the shape of its *)
(* argument, and yields Err where the framework raises.  The forward pass  *)
(* of Transformer is a sequential program; pc is its position.             *)
(***************************************************************************)
EXTENDS Integers, Sequences, FiniteSets, TLC

VARIABLES
    cfg,            \* constructor arguments of Transformer.__init__
    inp_img,        \* forward argument inp_img (a shape)
    prior,          \* forward argument prior (a shape, or None)
    pc,             \* position in forward / BasicLayer.forward
    x,              \* the tensor most recently produced
    prior_1,        \* locals of Transformer.forward
    prior_2,
    prior_3,
    inp_enc_level1,
    layer,          \* the BasicLayer whose forward is executing
    lprior,         \* BasicLayer.forward's local `prior`
    lx,             \* the argument x of the executing BasicLayer.forward
    blk,            \* number of blocks of `layer` already called
    ret,            \* where the executing BasicLayer.forward returns to
    ops,            \* log of operator applications [op, in, out]
    calls,          \* log of BasicLayer.forward invocations
    inner           \* log of HIM / TransformerBlock calls inside the stages

vars == <<cfg, inp_img, prior, pc, x, prior_1, prior_2, prior_3,
          inp_enc_level1, layer, lprior, lx, blk, ret, ops, calls, inner>>

-----------------------------------------------------------------------------
(* Bounds of the explored inputs.                                          *)

MaxBatch == 2

MaxGroup == 4

MaxLayerBlocks == 2

MaxResizeOps == 3

-----------------------------------------------------------------------------
(* Values that are not tensors.                                            *)

\* the result of an operator that raises
Err == <<-1>>

\* Python's None
None == <<-2>>

\* a local that has not been assigned yet
Unset == <<-3>>

IsTensor(s) == s # Err /\ s # None /\ s # Unset

RECURSIVE Prod(_)
Prod(s) == IF s = <<>> THEN 1 ELSE Head(s) * Prod(Tail(s))

Max(a, b) == IF a >= b THEN a ELSE b

-----------------------------------------------------------------------------
(* Framework operators, by shape.                                          *)

\* left-pad a shape with 1s to rank n
PadTo(s, n) == [i \in 1..n |-> IF i <= n - Len(s) THEN 1 ELSE s[i - (n - Len(s))]]

\* elementwise binary operators (x * k1, + k2, x + out, ...): torch broadcasting
Broadcast(a, b) ==
    IF ~IsTensor(a) \/ ~IsTensor(b) THEN Err
    ELSE LET n  == Max(Len(a), Len(b))
             pa == PadTo(a, n)
             pb == PadTo(b, n)
         IN  IF \A i \in 1..n : pa[i] = pb[i] \/ pa[i] = 1 \/ pb[i] = 1
             THEN [i \in 1..n |-> IF pa[i] = 1 THEN pb[i] ELSE pa[i]]
             ELSE Err

\* nn.Linear(in_features, out_features) applied to the last axis
Linear(in_features, out_features, s) ==
    IF ~IsTensor(s) \/ Len(s) < 1 THEN Err
    ELSE IF s[Len(s)] # in_features THEN Err
    ELSE [s EXCEPT ![Len(s)] = out_features]

\* nn.Conv2d(cin, cout, kernel_size=k, stride=1, padding=p) on a batched map
Conv2d(cin, cout, k, p, s) ==
    IF ~IsTensor(s) \/ Len(s) # 4 THEN Err
    ELSE IF s[2] # cin THEN Err
    ELSE IF s[3] + 2 * p < k \/ s[4] + 2 * p < k THEN Err
    ELSE <<s[1], cout, s[3] + 2 * p - k + 1, s[4] + 2 * p - k + 1>>

\* nn.PixelUnshuffle(r)
PixelUnshuffle(r, s) ==
    IF ~IsTensor(s) \/ Len(s) # 4 THEN Err
    ELSE IF s[3] % r # 0 \/ s[4] % r # 0 THEN Err
    ELSE <<s[1], s[2] * r * r, s[3] \div r, s[4] \div r>>

\* nn.PixelShuffle(r)
PixelShuffle(r, s) ==
    IF ~IsTensor(s) \/ Len(s) # 4 THEN Err
    ELSE IF s[2] % (r * r) # 0 THEN Err
    ELSE <<s[1], s[2] \div (r * r), s[3] * r, s[4] * r>>

\* einops Rearrange('b n c -> b c n') and Rearrange('b c n -> b n c')
Transpose12(s) ==
    IF ~IsTensor(s) \/ Len(s) # 3 THEN Err
    ELSE <<s[1], s[3], s[2]>>

\* tensor.flatten(1)
Flatten1(s) ==
    IF ~IsTensor(s) \/ Len(s) < 1 THEN Err
    ELSE IF Len(s) = 1 THEN s
    ELSE <<s[1], Prod(Tail(s))>>

\* tensor.unsqueeze(-1).unsqueeze(-1)
Unsqueeze2(s) == IF ~IsTensor(s) THEN Err ELSE s \o <<1, 1>>

\* tensor.view(*target): the element count must be kept
View(target, s) ==
    IF ~IsTensor(s) THEN Err
    ELSE IF Prod(s) # Prod(target) THEN Err
    ELSE target

-----------------------------------------------------------------------------
(* Defaults of Transformer.__init__ that the model keeps fixed.            *)

num_blocks == <<4, 6, 6, 8>>

num_refinement_blocks == 4

heads == <<1, 2, 4, 8>>

\* int(dim*ffn_expansion_factor) with ffn_expansion_factor = 2.66
hidden_features(dim) == (dim * 266) \div 100

-----------------------------------------------------------------------------
(* Building blocks.  A BasicLayer is the record of its constructor          *)
(* arguments: [name, dim, num_heads, num_blocks, group].                    *)

\* LayerNorm.forward: to_3d, body (x * weight [+ bias], weight of shape (dim,)), to_4d
LayerNorm(dim, s) ==
    IF ~IsTensor(s) \/ Len(s) # 4 THEN Err
    ELSE LET t == Broadcast(<<s[1], s[3] * s[4], s[2]>>, <<dim>>)
         IN  IF t = Err THEN Err ELSE <<t[1], t[3], s[3], s[4]>>

\* LayerNorm_Without_Shape.forward: h, w = x.shape[-2:]; body(x)
LayerNorm_Without_Shape(dim, s) ==
    IF ~IsTensor(s) \/ Len(s) < 2 THEN Err
    ELSE Broadcast(s, <<dim>>)

\* the prior conditioning of Attention / FeedForward:
\*   k1 = ln1(prior).unsqueeze(-1).unsqueeze(-1); k2 likewise; x = (x * k1) + k2
\* ln1, ln2 exist only in a block built with group == 1
Modulate(l, s, p) ==
    IF l.group # 1 THEN Err
    ELSE LET k1 == Unsqueeze2(Linear(cfg.embed_dim * 4, l.dim, p))
             k2 == Unsqueeze2(Linear(cfg.embed_dim * 4, l.dim, p))
         IN  Broadcast(Broadcast(s, k1), k2)

FeedForward(l, s, p) ==
    LET xm  == IF p # None THEN Modulate(l, s, p) ELSE s
        hf  == hidden_features(l.dim)
        pin == Conv2d(l.dim, hf * 2, 1, 0, xm)
        dw  == Conv2d(hf * 2, hf * 2, 3, 1, pin)
        \* x1, x2 = chunk(2, dim=1); gelu(x1) * x2
        g   == IF dw = Err THEN Err
               ELSE Broadcast(<<dw[1], hf, dw[3], dw[4]>>, <<dw[1], hf, dw[3], dw[4]>>)
    IN  Conv2d(hf, l.dim, 1, 0, g)

Attention(l, s, p) ==
    IF ~IsTensor(s) \/ Len(s) # 4 THEN Err
    ELSE LET xm  == IF p # None THEN Modulate(l, s, p) ELSE s
             qkv == Conv2d(l.dim * 3, l.dim * 3, 3, 1, Conv2d(l.dim, l.dim * 3, 1, 0, xm))
         IN  IF qkv = Err THEN Err
             \* rearrange 'b (head c) h w -> b head c (h w)'
             ELSE IF l.dim % l.num_heads # 0 THEN Err
             \* rearrange 'b head c (h w) -> b (head c) h w' with the h, w of x.shape
             ELSE IF qkv[3] * qkv[4] # s[3] * s[4] THEN Err
             ELSE Conv2d(l.dim, l.dim, 1, 0, <<qkv[1], l.dim, s[3], s[4]>>)

HIM(l, s, p) ==
    IF ~IsTensor(s) \/ Len(s) # 4 THEN Err
    ELSE LET x3 == <<s[1], s[3] * s[4], s[2]>>
             q  == Linear(l.dim, l.dim, LayerNorm_Without_Shape(l.dim, x3))
             kv == Linear(cfg.embed_dim * 4, 2 * l.dim,
                          LayerNorm_Without_Shape(cfg.embed_dim * 4, p))
         IN  IF q = Err \/ kv = Err THEN Err
             \* rearrange 'b n (head c) -> b head n c' of q, k, v
             ELSE IF Len(q) # 3 \/ Len(kv) # 3 \/ l.dim % l.num_heads # 0 THEN Err
             ELSE LET bb == Broadcast(<<q[1]>>, <<kv[1]>>)
                  IN  IF bb = Err THEN Err
                      ELSE LET out == Linear(l.dim, l.dim, <<bb[1], q[2], l.dim>>)
                               sum == Broadcast(x3, out)
                           IN  IF sum = Err THEN Err
                               ELSE IF sum[2] # s[3] * s[4] THEN Err
                               ELSE <<sum[1], sum[3], s[3], s[4]>>

TransformerBlock(l, s, p) ==
    LET x1 == Broadcast(s, Attention(l, LayerNorm(l.dim, s), p))
    IN  Broadcast(x1, FeedForward(l, LayerNorm(l.dim, x1), p))

OverlapPatchEmbed(in_c, embed_dim, s) == Conv2d(in_c, embed_dim, 3, 1, s)

\* variant: the convolution keeps n_feat channels instead of halving them
Downsample_keep(n_feat, s) == PixelUnshuffle(2, Conv2d(n_feat, n_feat, 3, 1, s))

Downsample(n_feat, s) == PixelUnshuffle(2, Conv2d(n_feat, n_feat \div 2, 3, 1, s))

\* variant: the convolution expands to 4 * n_feat channels instead of 2 * n_feat
Upsample_keep(n_feat, s) == PixelShuffle(2, Conv2d(n_feat, n_feat * 4, 3, 1, s))

Upsample(n_feat, s) == PixelShuffle(2, Conv2d(n_feat, n_feat * 2, 3, 1, s))

\* variant: the fusion guarded by the prior alone
UsesHim_nogroup(l, p) == p # None

\* BasicLayer.forward: `if prior is not None and self.group > 1`
UsesHim(l, p) == p # None /\ l.group > 1

\* variant: the prior kept after the fusion
PriorAfterHim_kept(p) == p

\* BasicLayer.forward: `prior = None` after the fusion
PriorAfterHim(p) == None

-----------------------------------------------------------------------------
(* The submodules Transformer.__init__ builds.                              *)

\* mae(img_size=224, patch_size=16, in_chans=inp_channels, embed_dim=embed_dim,
\* depth=12, num_heads=heads[0]); its code is hi_diff/archs/mae_encoder.py.
\* On a (B, in_chans, 224, 224) image it returns the token sequence (B, 50, 64)
\* that forward's adapter expects.  On an image of another size it either
\* raises or returns that same token sequence: both outcomes are kept.
mae_encoder(s) ==
    IF ~IsTensor(s) \/ Len(s) # 4 THEN {Err}
    ELSE IF s[2] # cfg.inp_channels THEN {Err}
    ELSE IF s[3] = 224 /\ s[4] = 224 THEN {<<s[1], 50, 64>>}
    ELSE {Err, <<s[1], 50, 64>>}

linear_layer(s) == Linear(50, 14 * 14, s)

channel_expand_layer(s) == Conv2d(64, 384, 1, 0, s)

conv_layer(s) == Conv2d(384, 384, 3, 1, s)

\* variant: the adapter left at the 14x14 token grid
upsample_layer_14(s) ==
    IF ~IsTensor(s) \/ Len(s) # 4 THEN Err ELSE <<s[1], s[2], 14, 14>>

\* nn.Upsample(size=(28, 28), mode="bilinear")
upsample_layer(s) ==
    IF ~IsTensor(s) \/ Len(s) # 4 THEN Err ELSE <<s[1], s[2], 28, 28>>

channel_increase_layer_level3(s) == Conv2d(192, 384, 1, 0, s)

channel_increase_layer_level2(s) == Conv2d(96, 192, 1, 0, s)

channel_increase_layer_level1(s) == Conv2d(48, 96, 1, 0, s)

\* variant: the token axis projected from 2 * group^2 tokens
down_1_wide(s) ==
    Linear(cfg.embed_dim * 4, cfg.embed_dim * 4,
           Transpose12(Linear(2 * cfg.group * cfg.group, (cfg.group * cfg.group) \div 4,
                              Transpose12(s))))

down_1(s) ==
    Linear(cfg.embed_dim * 4, cfg.embed_dim * 4,
           Transpose12(Linear(cfg.group * cfg.group, (cfg.group * cfg.group) \div 4,
                              Transpose12(s))))

down_2(s) ==
    Linear(cfg.embed_dim * 4, cfg.embed_dim * 4,
           Transpose12(Linear((cfg.group * cfg.group) \div 4, 1, Transpose12(s))))

patch_embed(s) == OverlapPatchEmbed(cfg.inp_channels, cfg.dim, s)

channel_reducer(s) == Conv2d(48, 3, 1, 0, s)

encoder_level1 ==
    [name |-> "encoder_level1", dim |-> cfg.dim, num_heads |-> heads[1],
     num_blocks |-> num_blocks[1], group |-> cfg.group]

down1_2(s) == Downsample(cfg.dim, s)

encoder_level2 ==
    [name |-> "encoder_level2", dim |-> cfg.dim * 2, num_heads |-> heads[2],
     num_blocks |-> num_blocks[2], group |-> cfg.group \div 2]

down2_3(s) == Downsample(cfg.dim * 2, s)

encoder_level3 ==
    [name |-> "encoder_level3", dim |-> cfg.dim * 4, num_heads |-> heads[3],
     num_blocks |-> num_blocks[3], group |-> cfg.group \div 2]

down3_4(s) == Downsample(cfg.dim * 4, s)

latent ==
    [name |-> "latent", dim |-> cfg.dim * 8, num_heads |-> heads[4],
     num_blocks |-> num_blocks[4], group |-> 1]

up4_3(s) == Upsample(cfg.dim * 8, s)

\* variant: a 3x3 convolution without padding
reduce_chan_level3_k3(s) == Conv2d(cfg.dim * 8, cfg.dim * 4, 3, 0, s)

reduce_chan_level3(s) == Conv2d(cfg.dim * 8, cfg.dim * 4, 1, 0, s)

decoder_level3 ==
    [name |-> "decoder_level3", dim |-> cfg.dim * 4, num_heads |-> heads[3],
     num_blocks |-> num_blocks[3], group |-> cfg.group \div 2]

up3_2(s) == Upsample(cfg.dim * 4, s)

reduce_chan_level2(s) == Conv2d(cfg.dim * 4, cfg.dim * 2, 1, 0, s)

decoder_level2 ==
    [name |-> "decoder_level2", dim |-> cfg.dim * 2, num_heads |-> heads[2],
     num_blocks |-> num_blocks[2], group |-> cfg.group \div 2]

up2_1(s) == Upsample(cfg.dim * 2, s)

decoder_level1 ==
    [name |-> "decoder_level1", dim |-> cfg.dim * 2, num_heads |-> heads[1],
     num_blocks |-> num_blocks[1], group |-> cfg.group]

refinement ==
    [name |-> "refinement", dim |-> cfg.dim * 2, num_heads |-> heads[1],
     num_blocks |-> num_refinement_blocks, group |-> cfg.group]

skip_conv(s) == Conv2d(cfg.dim, cfg.dim * 2, 1, 0, s)

output(s) == Conv2d(cfg.dim * 2, cfg.out_channels, 3, 1, s)

\* the submodule a name denotes, applied to s
Apply(m, s) ==
    CASE m = "patch_embed"                   -> patch_embed(s)
      [] m = "channel_reducer"               -> channel_reducer(s)
      [] m = "permute"                       -> Transpose12(s)
      [] m = "linear_layer"                  -> linear_layer(s)
      [] m = "view"                          ->
             IF IsTensor(s) /\ Len(s) >= 1 THEN View(<<s[1], 64, 14, 14>>, s) ELSE Err
      [] m = "channel_expand_layer"          -> channel_expand_layer(s)
      [] m = "conv_layer"                    -> conv_layer(s)
      [] m = "upsample_layer"                -> upsample_layer(s)
      [] m = "up4_3"                         -> up4_3(s)
      [] m = "channel_increase_layer_level3" -> channel_increase_layer_level3(s)
      [] m = "reduce_chan_level3"            -> reduce_chan_level3(s)
      [] m = "up3_2"                         -> up3_2(s)
      [] m = "channel_increase_layer_level2" -> channel_increase_layer_level2(s)
      [] m = "reduce_chan_level2"            -> reduce_chan_level2(s)
      [] m = "up2_1"                         -> up2_1(s)
      [] m = "channel_increase_layer_level1" -> channel_increase_layer_level1(s)
      [] m = "down1_2"                       -> down1_2(s)
      [] m = "down2_3"                       -> down2_3(s)
      [] m = "down3_4"                       -> down3_4(s)
      [] m = "skip_conv"                     -> skip_conv(s)
      [] m = "output"                        -> output(s)

\* the log of applying the submodules ms in turn to s, up to the first that raises
RECURSIVE Run(_, _)
Run(ms, s) ==
    IF ms = <<>> THEN <<>>
    ELSE LET o == Apply(Head(ms), s)
             e == [op |-> Head(ms), in |-> s, out |-> o]
         IN  IF o = Err THEN <<e>> ELSE <<e>> \o Run(Tail(ms), o)

\* the value a logged run of submodules leaves
Result(log, s) == IF log = <<>> THEN s ELSE log[Len(log)].out

-----------------------------------------------------------------------------
(* Transformer.forward.                                                     *)

\* the statements of forward in the order the code executes them
Program ==
    <<"multi_scale_prior", "patch_embed", "mae_encoder", "mae_adapter",
      "latent", "up4_3", "decoder_level3", "up3_2", "decoder_level2",
      "up2_1", "decoder_level1", "refinement", "output">>

\* the statement after statement p
After(p) ==
    LET i == CHOOSE j \in 1..Len(Program) : Program[j] = p
    IN  IF i = Len(Program) THEN "done" ELSE Program[i + 1]

\* the BasicLayer a stage statement calls
StageLayer(p) ==
    CASE p = "latent"         -> latent
      [] p = "decoder_level3" -> decoder_level3
      [] p = "decoder_level2" -> decoder_level2
      [] p = "decoder_level1" -> decoder_level1
      [] p = "refinement"     -> refinement

\* variant: decoder_level2 handed prior_1
StagePrior_level2(p) ==
    CASE p = "latent"         -> prior_3
      [] p = "decoder_level3" -> prior_2
      [] p = "decoder_level2" -> prior_1
      [] p = "decoder_level1" -> prior_1
      [] p = "refinement"     -> prior_1

\* the prior a stage statement passes
StagePrior(p) ==
    CASE p = "latent"         -> prior_3
      [] p = "decoder_level3" -> prior_2
      [] p = "decoder_level2" -> prior_2
      [] p = "decoder_level1" -> prior_1
      [] p = "refinement"     -> prior_1

StageNames == {"latent", "decoder_level3", "decoder_level2", "decoder_level1", "refinement"}

\* apply the submodules ms to s, log them, leave the result in x
Exec(ms, s, next) ==
    LET log == Run(ms, s)
        r   == Result(log, s)
    IN  /\ ops' = ops \o log
        /\ x' = r
        /\ pc' = IF r = Err THEN "error" ELSE next

\* prior_1 = prior; prior_2 = self.down_1(prior_1); prior_3 = self.down_2(prior_2).flatten(1)
MultiScalePrior ==
    /\ pc = "multi_scale_prior"
    /\ LET p2 == down_1(prior)
           d2 == down_2(p2)
           p3 == Flatten1(d2)
       IN  /\ prior_1' = prior
           /\ prior_2' = IF p2 = Err THEN Unset ELSE p2
           /\ prior_3' = IF p3 = Err THEN Unset ELSE p3
           /\ ops' = ops \o <<[op |-> "down_1", in |-> prior, out |-> p2]>>
                         \o (IF p2 = Err THEN <<>>
                             ELSE <<[op |-> "down_2", in |-> p2, out |-> d2]>>)
           /\ pc' = IF p3 = Err THEN "error" ELSE After(pc)
    /\ UNCHANGED <<cfg, inp_img, prior, x, inp_enc_level1, layer, lprior, lx, blk,
                   ret, calls, inner>>

\* inp_enc_level1 = self.patch_embed(inp_img); inp_enc_level1 = self.channel_reducer(...)
PatchEmbed ==
    /\ pc = "patch_embed"
    /\ Exec(<<"patch_embed", "channel_reducer">>, inp_img, After(pc))
    /\ inp_enc_level1' = x'
    /\ UNCHANGED <<cfg, inp_img, prior, prior_1, prior_2, prior_3, layer, lprior, lx,
                   blk, ret, calls, inner>>

\* mae_output = self.mae_encoder(inp_enc_level1)
MaeEncoder ==
    /\ pc = "mae_encoder"
    /\ \E r \in mae_encoder(inp_enc_level1) :
          /\ x' = r
          /\ ops' = Append(ops, [op |-> "mae_encoder", in |-> inp_enc_level1, out |-> r])
          /\ pc' = IF r = Err THEN "error" ELSE After(pc)
    /\ UNCHANGED <<cfg, inp_img, prior, prior_1, prior_2, prior_3, inp_enc_level1,
                   layer, lprior, lx, blk, ret, calls, inner>>

\* permute, linear_layer, view, channel_expand_layer, conv_layer, upsample_layer
MaeAdapter ==
    /\ pc = "mae_adapter"
    /\ Exec(<<"permute", "linear_layer", "view", "channel_expand_layer",
              "conv_layer", "upsample_layer">>, x, After(pc))
    /\ UNCHANGED <<cfg, inp_img, prior, prior_1, prior_2, prior_3, inp_enc_level1,
                   layer, lprior, lx, blk, ret, calls, inner>>

\* latent = self.latent(mae_output, prior_3), out_dec_level3 = self.decoder_level3(...), ...
CallStage ==
    /\ pc \in StageNames
    /\ layer' = StageLayer(pc)
    /\ lprior' = StagePrior(pc)
    /\ lx' = x
    /\ blk' = 0
    /\ ret' = After(pc)
    /\ calls' = Append(calls, [stage |-> pc, group |-> StageLayer(pc).group,
                               prior |-> StagePrior(pc), in |-> x, out |-> Unset])
    /\ pc' = "layer_if"
    /\ UNCHANGED <<cfg, inp_img, prior, x, prior_1, prior_2, prior_3, inp_enc_level1,
                   ops, inner>>

\* BasicLayer.forward: if prior is not None and self.group > 1: x = self.him(x, prior); prior = None
LayerIf ==
    /\ pc = "layer_if"
    /\ IF UsesHim(layer, lprior)
       THEN LET o == HIM(layer, x, lprior)
            IN  /\ x' = o
                /\ lprior' = PriorAfterHim(lprior)
                /\ inner' = Append(inner, [call |-> Len(calls), kind |-> "him",
                                           stage |-> layer.name, group |-> layer.group,
                                           prior |-> lprior, in |-> x, out |-> o])
                /\ pc' = IF o = Err THEN "error" ELSE "layer_for"
       ELSE /\ pc' = "layer_for"
            /\ UNCHANGED <<x, lprior, inner>>
    /\ UNCHANGED <<cfg, inp_img, prior, prior_1, prior_2, prior_3, inp_enc_level1,
                   layer, lx, blk, ret, ops, calls>>

\* BasicLayer.forward: for blk in self.blocks: x = blk(x, prior)
BlockStep ==
    /\ pc = "layer_for"
    /\ blk < layer.num_blocks
    /\ LET o == TransformerBlock(layer, x, lprior)
       IN  /\ x' = o
           /\ inner' = Append(inner, [call |-> Len(calls), kind |-> "blk",
                                      stage |-> layer.name, group |-> layer.group,
                                      prior |-> lprior, in |-> x, out |-> o])
           /\ pc' = IF o = Err THEN "error" ELSE "layer_for"
    /\ blk' = blk + 1
    /\ UNCHANGED <<cfg, inp_img, prior, prior_1, prior_2, prior_3, inp_enc_level1,
                   layer, lprior, lx, ret, ops, calls>>

\* BasicLayer.forward: return x
LayerReturn ==
    /\ pc = "layer_for"
    /\ blk = layer.num_blocks
    /\ pc' = ret
    /\ calls' = [calls EXCEPT ![Len(calls)].out = x]
    /\ ops' = Append(ops, [op |-> layer.name, in |-> lx, out |-> x])
    /\ UNCHANGED <<cfg, inp_img, prior, x, prior_1, prior_2, prior_3, inp_enc_level1,
                   layer, lprior, lx, blk, ret, inner>>

\* up4_3, channel_increase_layer_level3, reduce_chan_level3
Up4_3 ==
    /\ pc = "up4_3"
    /\ Exec(<<"up4_3", "channel_increase_layer_level3", "reduce_chan_level3">>, x, After(pc))
    /\ UNCHANGED <<cfg, inp_img, prior, prior_1, prior_2, prior_3, inp_enc_level1,
                   layer, lprior, lx, blk, ret, calls, inner>>

\* up3_2, channel_increase_layer_level2, reduce_chan_level2
Up3_2 ==
    /\ pc = "up3_2"
    /\ Exec(<<"up3_2", "channel_increase_layer_level2", "reduce_chan_level2">>, x, After(pc))
    /\ UNCHANGED <<cfg, inp_img, prior, prior_1, prior_2, prior_3, inp_enc_level1,
                   layer, lprior, lx, blk, ret, calls, inner>>

\* up2_1, channel_increase_layer_level1
Up2_1 ==
    /\ pc = "up2_1"
    /\ Exec(<<"up2_1", "channel_increase_layer_level1">>, x, After(pc))
    /\ UNCHANGED <<cfg, inp_img, prior, prior_1, prior_2, prior_3, inp_enc_level1,
                   layer, lprior, lx, blk, ret, calls, inner>>

\* if self.dual_pixel_task:
\*     out_dec_level1 = out_dec_level1 + self.skip_conv(inp_enc_level1)
\*     out_dec_level1 = self.output(out_dec_level1)
DualPixelOutput ==
    /\ pc = "output"
    /\ cfg.dual_pixel_task
    /\ LET sk   == skip_conv(inp_enc_level1)
           sum  == Broadcast(x, sk)
           o    == output(sum)
           log1 == <<[op |-> "skip_conv", in |-> inp_enc_level1, out |-> sk]>>
           log2 == IF sk = Err THEN <<>>
                   ELSE <<[op |-> "add_skip", in |-> x, out |-> sum]>>
           log3 == IF sum = Err THEN <<>>
                   ELSE <<[op |-> "output", in |-> sum, out |-> o]>>
       IN  /\ x' = o
           /\ ops' = ops \o log1 \o log2 \o log3
           /\ pc' = IF o = Err THEN "error" ELSE After(pc)
    /\ UNCHANGED <<cfg, inp_img, prior, prior_1, prior_2, prior_3, inp_enc_level1,
                   layer, lprior, lx, blk, ret, calls, inner>>

\* else: out_dec_level1 = self.output(out_dec_level1) + inp_img
ResidualOutput ==
    /\ pc = "output"
    /\ ~cfg.dual_pixel_task
    /\ LET o    == output(x)
           sum  == Broadcast(o, inp_img)
           log1 == <<[op |-> "output", in |-> x, out |-> o]>>
           log2 == IF o = Err THEN <<>>
                   ELSE <<[op |-> "add_inp_img", in |-> o, out |-> sum]>>
       IN  /\ x' = sum
           /\ ops' = ops \o log1 \o log2
           /\ pc' = IF sum = Err THEN "error" ELSE After(pc)
    /\ UNCHANGED <<cfg, inp_img, prior, prior_1, prior_2, prior_3, inp_enc_level1,
                   layer, lprior, lx, blk, ret, calls, inner>>

-----------------------------------------------------------------------------
(* The calls of forward that are explored.                                  *)

Dims == {24, 48, 96}

Groups == 1..MaxGroup

Sizes == {216, 224}

Tokens == {g * g : g \in Groups} \cup {32, 48}

Widths == {48, 192}

NoLayer == [name |-> "none", dim |-> 0, num_heads |-> 1, num_blocks |-> 0, group |-> 0]

Init ==
    /\ cfg \in [dim : Dims, group : Groups, dual_pixel_task : BOOLEAN,
                inp_channels : {3}, out_channels : {3}, embed_dim : {48}]
    /\ inp_img \in {<<b, 3, h, w>> : b \in 1..MaxBatch, h \in Sizes, w \in Sizes}
    /\ prior \in {None} \cup {<<inp_img[1], n, e>> : n \in Tokens, e \in Widths}
    /\ pc = "multi_scale_prior"
    /\ x = Unset
    /\ prior_1 = Unset
    /\ prior_2 = Unset
    /\ prior_3 = Unset
    /\ inp_enc_level1 = Unset
    /\ layer = NoLayer
    /\ lprior = Unset
    /\ lx = Unset
    /\ blk = 0
    /\ ret = "none"
    /\ ops = <<>>
    /\ calls = <<>>
    /\ inner = <<>>

Next ==
    \/ MultiScalePrior
    \/ PatchEmbed
    \/ MaeEncoder
    \/ MaeAdapter
    \/ CallStage
    \/ LayerIf
    \/ BlockStep
    \/ LayerReturn
    \/ Up4_3
    \/ Up3_2
    \/ Up2_1
    \/ DualPixelOutput
    \/ ResidualOutput

Spec == Init /\ [][Next]_vars

-----------------------------------------------------------------------------
(* BasicLayer.forward called on its own: any layer, any x, any prior.       *)

DefaultCfg ==
    [dim |-> 48, group |-> 4, dual_pixel_task |-> FALSE, inp_channels |-> 3,
     out_channels |-> 3, embed_dim |-> 48]

LayerDims == {48, 96}

LayerSizes == {4, 8}

LayerPriors(b) == {None, <<b, 192>>, <<b, 1, 192>>, <<b, 4, 192>>}

InitLayer ==
    /\ cfg = DefaultCfg
    /\ layer \in [name : {"layer"}, dim : LayerDims, num_heads : {1, 2},
                  num_blocks : 1..MaxLayerBlocks, group : 0..MaxGroup]
    /\ x \in {<<b, c, h, h>> : b \in 1..MaxBatch, c \in LayerDims, h \in LayerSizes}
    /\ lprior \in LayerPriors(x[1])
    /\ lx = x
    /\ blk = 0
    /\ ret = "done"
    /\ pc = "layer_if"
    /\ calls = <<[stage |-> layer.name, group |-> layer.group, prior |-> lprior,
                  in |-> x, out |-> Unset]>>
    /\ inp_img = Unset
    /\ prior = Unset
    /\ prior_1 = Unset
    /\ prior_2 = Unset
    /\ prior_3 = Unset
    /\ inp_enc_level1 = Unset
    /\ ops = <<>>
    /\ inner = <<>>

NextLayer ==
    \/ LayerIf
    \/ BlockStep
    \/ LayerReturn

SpecLayer == InitLayer /\ [][NextLayer]_vars

-----------------------------------------------------------------------------
(* Downsample and Upsample applied on their own to any feature map.         *)

ResizeFeats == {1, 2, 3, 4, 6, 8, 12, 16}

\* x = Downsample(n_feat)(x)
DownsampleStep ==
    /\ pc = "resize"
    /\ Len(ops) < MaxResizeOps
    /\ \E n \in ResizeFeats :
          LET o == Downsample(n, x)
          IN  /\ x' = o
              /\ ops' = Append(ops, [op |-> "Downsample", n_feat |-> n, in |-> x, out |-> o])
              /\ pc' = IF o = Err THEN "error" ELSE "resize"
    /\ UNCHANGED <<cfg, inp_img, prior, prior_1, prior_2, prior_3, inp_enc_level1,
                   layer, lprior, lx, blk, ret, calls, inner>>

\* x = Upsample(n_feat)(x)
UpsampleStep ==
    /\ pc = "resize"
    /\ Len(ops) < MaxResizeOps
    /\ \E n \in ResizeFeats :
          LET o == Upsample(n, x)
          IN  /\ x' = o
              /\ ops' = Append(ops, [op |-> "Upsample", n_feat |-> n, in |-> x, out |-> o])
              /\ pc' = IF o = Err THEN "error" ELSE "resize"
    /\ UNCHANGED <<cfg, inp_img, prior, prior_1, prior_2, prior_3, inp_enc_level1,
                   layer, lprior, lx, blk, ret, calls, inner>>

InitResize ==
    /\ cfg = DefaultCfg
    /\ x \in {<<b, c, h, w>> : b \in 1..MaxBatch, c \in 1..4, h \in 1..4, w \in 1..4}
    /\ pc = "resize"
    /\ ops = <<>>
    /\ inp_img = Unset
    /\ prior = Unset
    /\ prior_1 = Unset
    /\ prior_2 = Unset
    /\ prior_3 = Unset
    /\ inp_enc_level1 = Unset
    /\ layer = NoLayer
    /\ lprior = Unset
    /\ lx = Unset
    /\ blk = 0
    /\ ret = "none"
    /\ calls = <<>>
    /\ inner = <<>>

NextResize ==
    \/ DownsampleStep
    \/ UpsampleStep

SpecResize == InitResize /\ [][NextResize]_vars

-----------------------------------------------------------------------------
(* Properties of forward on the default configuration.                      *)

\* a prior of the shape the default configuration is built for
GoodPrior == prior = <<inp_img[1], cfg.group * cfg.group, cfg.embed_dim * 4>>

Is224 == inp_img[3] = 224 /\ inp_img[4] = 224

\* the MAE encoder, if it was reached, accepted its input
MaeAccepted == \A i \in 1..Len(ops) : ops[i].op = "mae_encoder" => ops[i].out # Err

\* C1, as stated: with the default configuration and a prior of the shape it is
\* built for, forward returns (B, out_channels, H, W) for every B and every H, W
\* that are multiples of 8 (granting that the MAE encoder accepts the image).
C1_AnyMultipleOf8 ==
    (/\ cfg = DefaultCfg /\ GoodPrior /\ MaeAccepted
     /\ inp_img[3] % 8 = 0 /\ inp_img[4] % 8 = 0)
        => /\ pc # "error"
           /\ pc = "done" => x = <<inp_img[1], cfg.out_channels, inp_img[3], inp_img[4]>>

\* C1, as amended: with the default configuration and a prior of the shape it is
\* built for, forward on a (B, 3, 224, 224) image never raises and
\* returns (B, out_channels, 224, 224), for every B;
\* on an image of any other size it never returns.
C1_Shape224 ==
    (cfg = DefaultCfg /\ GoodPrior)
        => /\ Is224 => /\ pc # "error"
                       /\ pc = "done" => x = <<inp_img[1], cfg.out_channels, 224, 224>>
           /\ ~Is224 => pc # "done"

C1_Witness ==
    /\ cfg = DefaultCfg
    /\ inp_img = <<2, 3, 224, 224>>
    /\ prior = <<2, 16, 192>>
    /\ pc = "done"
    /\ x = <<2, 3, 224, 224>>

\* C2, as stated: with prior = None forward completes without raising, and no
\* conditioning and no HIM fusion runs in any stage.
C2_PriorNoneCompletes ==
    (cfg = DefaultCfg /\ prior = None /\ Is224)
        => /\ pc # "error"
           /\ \A i \in 1..Len(inner) : inner[i].kind = "blk" /\ inner[i].prior = None

\* C3, as stated: with the default configuration, a (1, 3, 224, 224) image and a
\* (1, N, 192) prior, forward returns (1, 3, 224, 224) without raising for every
\* N divisible by group^2 = 16.
C3_AnyMultipleOf16 ==
    (/\ cfg = DefaultCfg
     /\ inp_img = <<1, 3, 224, 224>>
     /\ IsTensor(prior) /\ Len(prior) = 3 /\ prior[3] = 192
     /\ prior[2] % 16 = 0)
        => /\ pc # "error"
           /\ pc = "done" => x = <<1, 3, 224, 224>>

\* C3, as amended: with the default configuration, a (1, 3, 224, 224) image and a
\* (1, N, 192) prior with N divisible by 16, forward returns (1, 3, 224, 224)
\* without raising when N = 16, and raises in its first statement (down_1) for
\* every other N.
C3_Exactly16 ==
    (/\ cfg = DefaultCfg
     /\ inp_img = <<1, 3, 224, 224>>
     /\ IsTensor(prior) /\ Len(prior) = 3 /\ prior[3] = 192
     /\ prior[2] % 16 = 0)
        => /\ prior[2] = 16 => /\ pc # "error"
                               /\ pc = "done" => x = <<1, 3, 224, 224>>
           /\ prior[2] # 16 => /\ pc \in {"multi_scale_prior", "error"}
                               /\ calls = <<>>

C3_Witness ==
    /\ cfg = DefaultCfg
    /\ inp_img = <<1, 3, 224, 224>>
    /\ prior = <<1, 16, 192>>
    /\ pc = "done"
    /\ x = <<1, 3, 224, 224>>
    /\ prior_2 = <<1, 4, 192>>
    /\ prior_3 = <<1, 192>>

\* C4, as stated: built with dual_pixel_task set, forward completes; the tensor
\* passed to skip_conv has the channel count skip_conv was built for (dim), and
\* the operands of the sum have equal shapes.
C4_DualPixelCompletes ==
    (/\ cfg = [DefaultCfg EXCEPT !.dual_pixel_task = TRUE]
     /\ GoodPrior /\ Is224)
        => /\ pc # "error"
           /\ \A i \in 1..Len(ops) :
                 ops[i].op = "skip_conv"
                     => /\ ops[i].in[2] = cfg.dim
                        /\ ops[i].out = <<inp_img[1], cfg.dim * 2, 224, 224>>

-----------------------------------------------------------------------------
(* Properties of Downsample and Upsample (under SpecResize).                *)

Even(n) == n % 2 = 0

\* C5: on a (B, C, H, W) map with C, H, W even, Downsample(C) yields
\* (B, 2C, H/2, W/2); on a (B, n, H, W) map with n even, Upsample(n) yields
\* (B, n/2, 2H, 2W); Downsample(C) followed by Upsample(2C) restores (B, C, H, W).
C5_ResizeShapes ==
    /\ \A i \in 1..Len(ops) :
          LET e == ops[i]
          IN  /\ (e.op = "Downsample" /\ e.n_feat = e.in[2] /\ Even(e.in[2])
                    /\ Even(e.in[3]) /\ Even(e.in[4]))
                  => e.out = <<e.in[1], 2 * e.in[2], e.in[3] \div 2, e.in[4] \div 2>>
              /\ (e.op = "Upsample" /\ e.n_feat = e.in[2] /\ Even(e.in[2]))
                  => e.out = <<e.in[1], e.in[2] \div 2, 2 * e.in[3], 2 * e.in[4]>>
    /\ \A i \in 1..(Len(ops) - 1) :
          (/\ ops[i].op = "Downsample" /\ ops[i].n_feat = ops[i].in[2]
           /\ Even(ops[i].in[2]) /\ Even(ops[i].in[3]) /\ Even(ops[i].in[4])
           /\ ops[i + 1].op = "Upsample" /\ ops[i + 1].n_feat = 2 * ops[i].in[2])
              => ops[i + 1].out = ops[i].in

C5_Witness ==
    /\ Len(ops) = 2
    /\ ops[1] = [op |-> "Downsample", n_feat |-> 2, in |-> <<2, 2, 4, 2>>,
                 out |-> <<2, 4, 2, 1>>]
    /\ ops[2] = [op |-> "Upsample", n_feat |-> 4, in |-> <<2, 4, 2, 1>>,
                 out |-> <<2, 2, 4, 2>>]

-----------------------------------------------------------------------------
(* Properties of BasicLayer.forward.                                        *)

\* the HIM / block calls made by the k-th BasicLayer.forward invocation
CallEntries(k) == SelectSeq(inner, LAMBDA e : e.call = k)

HimCount(es) == Cardinality({i \in 1..Len(es) : es[i].kind = "him"})

\* C6: in a BasicLayer.forward call with group > 1 and a non-None prior, HIM
\* runs exactly once, before the first block, and every block is called with
\* prior = None; in a call with group <= 1 or prior None, HIM never runs and
\* every block is called with the incoming prior.
C6_FusionOncePerStage ==
    \A k \in 1..Len(calls) :
        LET c  == calls[k]
            es == CallEntries(k)
        IN  IF c.group > 1 /\ c.prior # None
            THEN /\ HimCount(es) <= 1
                 /\ es # <<>> => es[1].kind = "him" /\ es[1].prior = c.prior
                 /\ \A i \in 2..Len(es) : es[i].kind = "blk" /\ es[i].prior = None
                 /\ c.out # Unset => HimCount(es) = 1
            ELSE \A i \in 1..Len(es) : es[i].kind = "blk" /\ es[i].prior = c.prior

C6_Witness ==
    /\ pc = "done"
    /\ calls[1].group = 2
    /\ calls[1].prior = <<1, 4, 192>>
    /\ layer.num_blocks = 2
    /\ Len(inner) = 3
    /\ inner[1].kind = "him"
    /\ inner[2].kind = "blk" /\ inner[2].prior = None
    /\ inner[3].kind = "blk" /\ inner[3].prior = None

-----------------------------------------------------------------------------
(* Properties of the stage sequence and of the tensors of forward.          *)

StageOrder ==
    <<"latent", "decoder_level3", "decoder_level2", "decoder_level1", "refinement">>

Bypassed ==
    {"encoder_level1", "encoder_level2", "encoder_level3", "down1_2", "down2_3", "down3_4"}

\* C7: the stage invocations of a forward call are, in order, latent,
\* decoder_level3, decoder_level2, decoder_level1, refinement, each once (all
\* five when forward returns), receiving prior_3 (one flattened vector of width
\* embed_dim*4 per batch element), prior_2, prior_2, prior_1, prior_1, where
\* prior_1 has group^2 tokens and prior_2 has group^2 // 4 tokens; the encoder
\* stages and down1_2, down2_3, down3_4 are never invoked.
C7_StageSequence ==
    /\ Len(calls) <= Len(StageOrder)
    /\ pc = "done" => Len(calls) = Len(StageOrder)
    /\ \A k \in 1..Len(calls) :
          /\ calls[k].stage = StageOrder[k]
          /\ k = 1 => /\ calls[k].prior = prior_3
                      /\ prior_3 = <<inp_img[1], cfg.embed_dim * 4>>
          /\ k \in {2, 3} => /\ calls[k].prior = prior_2
                             /\ prior_2 = <<inp_img[1], (cfg.group * cfg.group) \div 4,
                                            cfg.embed_dim * 4>>
          /\ k \in {4, 5} => /\ calls[k].prior = prior_1
                             /\ prior_1 = <<inp_img[1], cfg.group * cfg.group,
                                            cfg.embed_dim * 4>>
    /\ \A i \in 1..Len(ops) : ops[i].op \notin Bypassed
    /\ \A i \in 1..Len(inner) : inner[i].stage \notin Bypassed

C7_Witness ==
    /\ pc = "done"
    /\ cfg.group = 4
    /\ Len(calls) = 5
    /\ calls[1].prior = <<1, 192>>
    /\ calls[3].prior = <<1, 4, 192>>
    /\ calls[5].prior = <<1, 16, 192>>
    /\ calls[5].out = <<1, 96, 224, 224>>

\* an operator application from a feature map to a feature map
MapToMap(e) == IsTensor(e.in) /\ IsTensor(e.out) /\ Len(e.in) = 4 /\ Len(e.out) = 4

Resizes(e) == e.in[3] # e.out[3] \/ e.in[4] # e.out[4]

\* C8, as stated: in forward, Downsample and Upsample modules are the only
\* operators whose output spatial size differs from their input spatial size.
C8_OnlyDownUpResize ==
    \A i \in 1..Len(ops) :
        (MapToMap(ops[i]) /\ Resizes(ops[i]))
            => ops[i].op \in {"up4_3", "up3_2", "up2_1", "down1_2", "down2_3", "down3_4"}

\* C8, as amended: in forward, the operators from a feature map to a feature
\* map whose output spatial size differs from their input spatial size are
\* exactly the Upsample modules up4_3, up3_2, up2_1 (each doubles it) and the
\* prior-encoder adapter's bilinear upsample_layer (to 28x28); Downsample is
\* never applied; patch embedding, channel reducer, channel_expand_layer,
\* conv_layer, the 1x1 channel convolutions, the stages, the output convolution
\* and the residual sums preserve spatial resolution.
C8_ResizingOperators ==
    \A i \in 1..Len(ops) :
        LET e == ops[i]
        IN  /\ e.op \notin Bypassed
            /\ MapToMap(e) =>
                  /\ Resizes(e) <=> e.op \in {"up4_3", "up3_2", "up2_1", "upsample_layer"}
                  /\ e.op \in {"up4_3", "up3_2", "up2_1"}
                        => e.out[3] = 2 * e.in[3] /\ e.out[4] = 2 * e.in[4]
                  /\ e.op = "upsample_layer" => e.out[3] = 28 /\ e.out[4] = 28

C8_Witness ==
    /\ pc = "done"
    /\ \E i \in 1..Len(ops) :
          /\ ops[i].op = "upsample_layer"
          /\ ops[i].in = <<1, 384, 14, 14>>
          /\ ops[i].out = <<1, 384, 28, 28>>
    /\ \E i \in 1..Len(ops) :
          /\ ops[i].op = "reduce_chan_level3"
          /\ ops[i].in = <<1, 384, 56, 56>>
          /\ ops[i].out = <<1, 192, 56, 56>>

\* the shape of a level-l feature tensor for base width c and image size h x w
LevelShape(b, c, h, w, l) == <<b, c * 2^l, h \div 2^l, w \div 2^l>>

IsLevelShape(s) ==
    \E l \in 0..3 : s = LevelShape(inp_img[1], cfg.dim, inp_img[3], inp_img[4], l)

LevelOf(s) ==
    CHOOSE l \in 0..3 : s = LevelShape(inp_img[1], cfg.dim, inp_img[3], inp_img[4], l)

\* C9, as stated, read for the tensors entering and leaving the stages of a
\* forward call on a 224x224 image: each has
\* shape (batch, C*2^level, H/2^level, W/2^level) for some level in 0..3, and
\* consecutive stages differ in level by exactly one.
C9_LevelShapes ==
    Is224 =>
        /\ \A k \in 1..Len(calls) :
              /\ IsLevelShape(calls[k].in)
              /\ calls[k].out # Unset => IsLevelShape(calls[k].out)
        /\ \A k \in 1..(Len(calls) - 1) :
              (IsLevelShape(calls[k].in) /\ IsLevelShape(calls[k + 1].in))
                  => LevelOf(calls[k].in) - LevelOf(calls[k + 1].in) \in {1, -1}

\* the shape of the tensor entering and leaving each stage
StageShape(b, c, stage) ==
    CASE stage = "latent"         -> LevelShape(b, c, 224, 224, 3)
      [] stage = "decoder_level3" -> LevelShape(b, c, 224, 224, 2)
      [] stage = "decoder_level2" -> LevelShape(b, c, 224, 224, 1)
      [] stage = "decoder_level1" -> <<b, 2 * c, 224, 224>>
      [] stage = "refinement"     -> <<b, 2 * c, 224, 224>>

\* C9, as amended: the tensor entering and leaving latent, decoder_level3 and
\* decoder_level2 has shape (batch, C*2^level, 224/2^level, 224/2^level) with
\* level 3, 2, 1, while decoder_level1 and refinement both run on
\* (batch, 2C, 224, 224), which is no level shape; each Upsample between stages
\* halves the channels and doubles the spatial size, and each channel_increase
\* convolution that follows doubles the channels at unchanged resolution.
C9_StageShapes ==
    /\ \A k \in 1..Len(calls) :
          /\ calls[k].in = StageShape(inp_img[1], cfg.dim, calls[k].stage)
          /\ calls[k].out # Unset => calls[k].out = calls[k].in
    /\ \A i \in 1..Len(ops) :
          LET e == ops[i]
          IN  /\ (e.op \in {"up4_3", "up3_2", "up2_1"} /\ e.out # Err)
                  => e.out = <<e.in[1], e.in[2] \div 2, 2 * e.in[3], 2 * e.in[4]>>
              /\ (e.op \in {"channel_increase_layer_level3", "channel_increase_layer_level2",
                            "channel_increase_layer_level1"} /\ e.out # Err)
                  => e.out = <<e.in[1], 2 * e.in[2], e.in[3], e.in[4]>>

C9_Witness ==
    /\ pc = "done"
    /\ Len(calls) = 5
    /\ calls[1].in = <<2, 384, 28, 28>>
    /\ calls[2].in = <<2, 192, 56, 56>>
    /\ calls[3].in = <<2, 96, 112, 112>>
    /\ calls[4].in = <<2, 96, 224, 224>>
    /\ calls[5].out = <<2, 96, 224, 224>>

\* the prior a block's Attention and FeedForward receive is a flattened
\* per-batch vector of width embed_dim*4, in a block built with group == 1
Conditioned(e) ==
    /\ e.group = 1
    /\ e.prior = <<inp_img[1], cfg.embed_dim * 4>>

\* C10, as stated: for every group setting, every block whose Attention and
\* FeedForward are called with a non-None prior belongs to a stage built with
\* group == 1 and receives a flattened per-batch vector of width embed_dim*4.
C10_AnyGroup ==
    \A i \in 1..Len(inner) :
        (inner[i].kind = "blk" /\ inner[i].prior # None) => Conditioned(inner[i])

\* C10, as amended: for every group setting with group // 2 > 1 (such as the
\* default 4), every block whose Attention and FeedForward are called with a
\* non-None prior belongs to a stage built with group == 1 and receives a
\* flattened per-batch vector of width embed_dim*4.
C10_GroupAtLeast4 ==
    cfg.group \div 2 > 1
        => \A i \in 1..Len(inner) :
              (inner[i].kind = "blk" /\ inner[i].prior # None) => Conditioned(inner[i])

C10_Witness ==
    /\ pc = "done"
    /\ cfg.group = 4
    /\ \E i \in 1..Len(inner) :
          /\ inner[i].kind = "blk"
          /\ inner[i].stage = "latent"
          /\ inner[i].group = 1
          /\ inner[i].prior = <<2, 192>>
          /\ inner[i].out = <<2, 384, 28, 28>>
    /\ \E i \in 1..Len(inner) :
          /\ inner[i].kind = "blk"
          /\ inner[i].stage = "decoder_level3"
          /\ inner[i].prior = None

-----------------------------------------------------------------------------
(* Channel counts the submodules were constructed for.                      *)

\* the in_channels argument each convolutional submodule is built with in
\* Transformer.__init__
in_channels(m) ==
    CASE m = "patch_embed"                   -> cfg.inp_channels
      [] m = "channel_reducer"               -> 48
      [] m = "channel_expand_layer"          -> 64
      [] m = "conv_layer"                    -> 384
      [] m = "up4_3"                         -> cfg.dim * 8
      [] m = "channel_increase_layer_level3" -> 192
      [] m = "reduce_chan_level3"            -> cfg.dim * 8
      [] m = "up3_2"                         -> cfg.dim * 4
      [] m = "channel_increase_layer_level2" -> 96
      [] m = "reduce_chan_level2"            -> cfg.dim * 4
      [] m = "up2_1"                         -> cfg.dim * 2
      [] m = "channel_increase_layer_level1" -> 48
      [] m = "output"                        -> cfg.dim * 2

Convolutional ==
    {"patch_embed", "channel_reducer", "channel_expand_layer", "conv_layer", "up4_3",
     "channel_increase_layer_level3", "reduce_chan_level3", "up3_2",
     "channel_increase_layer_level2", "reduce_chan_level2", "up2_1",
     "channel_increase_layer_level1", "output"}

\* C11, as stated: for every base width dim the constructor accepts (the other
\* arguments default, a 224x224 image and a prior of the shape the configuration
\* is built for), every module invoked in forward receives an input
\* whose channel count is the one the module was constructed with: the
\* convolutional submodules their in_channels, the stages their dim.
C11_ChannelsMatchAnyDim ==
    (cfg = [DefaultCfg EXCEPT !.dim = cfg.dim] /\ GoodPrior /\ Is224) =>
        /\ \A i \in 1..Len(ops) :
              (ops[i].op \in Convolutional /\ IsTensor(ops[i].in) /\ Len(ops[i].in) = 4)
                  => ops[i].in[2] = in_channels(ops[i].op)
        /\ \A k \in 1..Len(calls) :
              calls[k].in[2] = StageLayer(calls[k].stage).dim

\* the same statement for the one width the hard-coded layers match, dim = 48
C11_ChannelsMatchDim48 ==
    (cfg = DefaultCfg /\ GoodPrior /\ Is224) =>
        /\ \A i \in 1..Len(ops) :
              (ops[i].op \in Convolutional /\ IsTensor(ops[i].in) /\ Len(ops[i].in) = 4)
                  => ops[i].in[2] = in_channels(ops[i].op)
        /\ \A k \in 1..Len(calls) :
              calls[k].in[2] = StageLayer(calls[k].stage).dim

=============================================================================
